---- MODULE Spec2Model ----
(***************************************************************************)
(* Spinly: the track recommendation pipeline and its background jobs.      *)
(*                                                                         *)
(* The catalog (releases, artists, tracks), the job table, the external    *)
(* provider (Discogs) and the pipeline executions are the state.  Every    *)
(* await of the pipeline that touches the provider, the catalog or the job *)
(* table is one action.                                                    *)
(***************************************************************************)
EXTENDS Integers, Sequences, FiniteSets, TLC

VARIABLES
    jobs,       \* background_jobs table: sequence of job rows, id = index
    releases,   \* releases table: sequence of rows, id = index
    artists,    \* artists table: sequence of rows, id = index
    tracks,     \* tracks table: sequence of rows, id = index
    pc,         \* per job id: where the run of that job stands
    run,        \* per job id: the local variables of its run
    calls,      \* per job id: provider calls and pacing delays of its run
    runs,       \* per job id: how many times a run was dispatched for it
    last,       \* the last response a poller received
    hyd,        \* per runner: a get-or-create of a release, step by step
    sim,        \* the last similarity computed: the two releases and the score
    res         \* a call of the resolver: its arguments, its searches, its outcome

vars == <<jobs, releases, artists, tracks, pc, run, calls, runs, last, hyd, sim, res>>

(*************************** bounds of the model ***************************)
NumJobs == 1        \* job ids 1..NumJobs can be created
NumExt == 2         \* the provider knows release ids 1..NumExt
MaxResults == 2     \* longest search result page the provider returns
MaxRuns == 2        \* dispatches of one job id (SpecRerun only)
MaxPermute == 4     \* tables up to this size come back in every order
MaxCatalog == 12    \* releases already in the catalog (SpecPipeline only)
NumRunners == 2     \* concurrent get-or-create executions (SpecRace only)
MaxStyles == 2      \* longest style list of a scored release (SpecScore only)

JobIds == 1..NumJobs
ExtIds == 1..NumExt
Runners == 1..NumRunners

(************************** generic helpers ********************************)
Range(s) == {s[i] : i \in DOMAIN s}

RECURSIVE SeqFilter(_, _)
\* the subsequence of s whose elements are in the set keep
SeqFilter(s, keep) ==
    IF s = <<>> THEN <<>>
    ELSE IF Head(s) \in keep THEN <<Head(s)>> \o SeqFilter(Tail(s), keep)
         ELSE SeqFilter(Tail(s), keep)

\* all orders in which a query without ORDER BY may return the rows S
RowOrders(S) ==
    {f \in [1..Cardinality(S) -> S] : \A i, k \in DOMAIN f : i # k => f[i] # f[k]}

RECURSIVE Ascending(_)
Ascending(S) ==
    IF S = {} THEN <<>>
    ELSE LET m == CHOOSE x \in S : \A y \in S : x <= y
         IN  <<m>> \o Ascending(S \ {m})

Reverse(s) == [i \in DOMAIN s |-> s[Len(s) + 1 - i]]

\* the orders explored for a table: all of them for a small one, else by id
\* upwards and downwards
ScanOrders(S) ==
    IF Cardinality(S) <= MaxPermute THEN RowOrders(S)
    ELSE {Ascending(S), Reverse(Ascending(S))}

\* sequences over S of length at most n
SeqsUpTo(S, n) == UNION {[1..k -> S] : k \in 0..n}

None == <<>>
Some(v) == <<v>>

(****************************** job table **********************************)
PENDING == "pending"
RUNNING == "running"
COMPLETED == "completed"
FAILED == "failed"
JobStatus == {PENDING, RUNNING, COMPLETED, FAILED}

NoResult == [kind |-> "none", track_ids |-> <<>>, error |-> <<>>]
TrackIdsResult(ids) == [kind |-> "track_ids", track_ids |-> ids, error |-> <<>>]
ErrorResult(msg) == [kind |-> "error", track_ids |-> <<>>, error |-> msg]

\* a create_job that loses the owner of the request
create_job_without_owner(job_create) ==
    [job_type |-> job_create.job_type,
     parameters |-> job_create.parameters,
     user_id |-> None,
     status |-> PENDING,
     started_at |-> None,
     completed_at |-> None,
     duration_s |-> None,
     result |-> NoResult]

\* BackgroundJob(job_type, parameters, user_id, status=PENDING); the other
\* columns are nullable and have no default
create_job(job_create) ==
    [job_type |-> job_create.job_type,
     parameters |-> job_create.parameters,
     user_id |-> job_create.user_id,
     status |-> PENDING,
     started_at |-> None,
     completed_at |-> None,
     duration_s |-> None,
     result |-> NoResult]

\* JobUpdate.model_dump(exclude_unset=True): only the fields the caller set
\* are written, each by setattr; the row is committed as a whole
update_job(table, job_id, job_update) ==
    IF job_id \notin DOMAIN table THEN table
    ELSE [table EXCEPT ![job_id] =
            [f \in DOMAIN @ |-> IF f \in DOMAIN job_update THEN job_update[f] ELSE @[f]]]

(**************************** similarity score ****************************)
\* Scores are kept as integers: a score of the code times Scale.  Scale makes
\* every term exact for style unions of up to 6 tags and whole years.
Scale == 6 * 10

DISCOGS_SIMILAR_SEARCH_PAGES == 1
MIN_SCORE_FOR_CANDIDACY == (7 * Scale) \div 10
DEFAULT_LIMIT_RELEASES_FOR_TRACK_COLLECTION == 10
WEIGHT_STYLE == 4 * Scale
WEIGHT_LABEL == (5 * Scale) \div 2
WEIGHT_YEAR == (5 * Scale) \div 2
WEIGHT_ARTIST == 1 * Scale
STYLE_COMPLETENESS_BONUS == 2 * Scale

\* str.lower() on the strings of the model
Lower(s) ==
    CASE s = "House" -> "house"
      [] s = "Techno" -> "techno"
      [] s = "X" -> "x"
      [] s = "Y" -> "y"
      [] OTHER -> s

Abs(n) == IF n < 0 THEN -n ELSE n
Max(a, b) == IF a > b THEN a ELSE b

\* set(s.lower() for s in release.styles)
StylesSet(release) == {Lower(release.styles[i]) : i \in DOMAIN release.styles}

\* a style term without the completeness bonus
StyleTermWithoutBonus(base_release, target_release) ==
    IF base_release.styles # <<>> /\ target_release.styles # <<>>
    THEN (Cardinality(StylesSet(base_release) \cap StylesSet(target_release)) * WEIGHT_STYLE)
         \div Cardinality(StylesSet(base_release) \cup StylesSet(target_release))
    ELSE 0

\* 1. Styles (Jaccard similarity, plus the bonus when base <= target)
StyleTerm(base_release, target_release) ==
    IF base_release.styles # <<>> /\ target_release.styles # <<>>
    THEN LET base_styles_set == StylesSet(base_release)
             target_styles_set == StylesSet(target_release)
             intersection == Cardinality(base_styles_set \cap target_styles_set)
             union == Cardinality(base_styles_set \cup target_styles_set)
         IN  IF union > 0
             THEN (intersection * WEIGHT_STYLE) \div union
                  + (IF base_styles_set \subseteq target_styles_set
                     THEN STYLE_COMPLETENESS_BONUS ELSE 0)
             ELSE 0
    ELSE 0

\* 2. Label ("" stands for a missing label: None and "" are both falsy)
LabelTerm(base_release, target_release) ==
    IF base_release.label # "" /\ target_release.label # ""
       /\ Lower(base_release.label) = Lower(target_release.label)
    THEN WEIGHT_LABEL ELSE 0

\* a year term that is not capped at a difference of ten years
YearTermUncapped(base_release, target_release) ==
    IF base_release.year # 0 /\ target_release.year # 0
    THEN ((10 - Abs(base_release.year - target_release.year)) * WEIGHT_YEAR) \div 10
    ELSE 0

\* 3. Year (0 stands for a missing year: None and 0 are both falsy)
YearTerm(base_release, target_release) ==
    IF base_release.year # 0 /\ target_release.year # 0
    THEN LET year_diff == Abs(base_release.year - target_release.year)
         IN  (Max(0, 10 - year_diff) * WEIGHT_YEAR) \div 10
    ELSE 0

\* 4. Artist (0 stands for a missing artist_id)
ArtistTerm(base_release, target_release) ==
    IF base_release.artist_id # 0 /\ target_release.artist_id # 0
       /\ base_release.artist_id = target_release.artist_id
    THEN WEIGHT_ARTIST ELSE 0

calculate_release_similarity(base_release, target_release) ==
    StyleTerm(base_release, target_release)
    + LabelTerm(base_release, target_release)
    + YearTerm(base_release, target_release)
    + ArtistTerm(base_release, target_release)

\* score = await calculate_release_similarity(base_release, target_release)
\* for two release rows, with the style term both ways round
Similarity(base_release, target_release) ==
    [computed |-> TRUE, base |-> base_release, target |-> target_release,
     score |-> calculate_release_similarity(base_release, target_release),
     style |-> StyleTerm(base_release, target_release),
     style_swapped |-> StyleTerm(target_release, base_release)]

ReleaseRow(discogs_id, styles, label, year, artist_id) ==
    [discogs_id |-> discogs_id, year |-> year, label |-> label, styles |-> styles,
     artist_id |-> artist_id]

NoSimilarity ==
    [computed |-> FALSE, base |-> ReleaseRow(0, <<>>, "", 0, 0),
     target |-> ReleaseRow(0, <<>>, "", 0, 0), score |-> 0, style |-> 0,
     style_swapped |-> 0]

(***************************** the provider ********************************)
\* One item of a release's tracklist: type_ and the track's own artists
TrackItem(type_, track_artists) == [type_ |-> type_, artists |-> track_artists]
ArtistData(id, name) == [id |-> id, name |-> name]

\* What GET /releases/{id} returns (the fields the pipeline reads)
ReleaseData(styles, label, year, release_artists, tracklist) ==
    [styles |-> styles, label |-> label, year |-> year,
     artists |-> release_artists, tracklist |-> tracklist]

DataHouse ==
    ReleaseData(<<"House", "techno">>, "X", 2000, <<ArtistData(1, "A")>>,
                <<TrackItem("track", <<>>), TrackItem("heading", <<>>),
                  TrackItem("track", <<ArtistData(2, "B")>>)>>)
DataDeep ==
    ReleaseData(<<"house">>, "x", 1995, <<ArtistData(0, "B")>>,
                <<TrackItem("heading", <<>>), TrackItem("track", <<ArtistData(1, "A")>>)>>)
DataBare ==
    ReleaseData(<<>>, "", 0, <<>>, <<>>)
DataUntagged ==
    ReleaseData(<<>>, "X", 1998, <<ArtistData(1, "A")>>, <<TrackItem("track", <<>>)>>)

\* DiscogsService.get_release: the parsed JSON, or an exception
GetReleaseOk(data) == [ok |-> TRUE, data |-> data]
GetReleaseError == [ok |-> FALSE, data |-> DataBare]

\* The HTTP answer to GET /database/search: its status, the ids of the result
\* items (0: an item without "id") and whether pagination.urls.next is there
SearchAnswer(status, results, next) == [status |-> status, results |-> results, next |-> next]

\* DiscogsService.search_releases: 404 is "no more results" ({}), any other
\* error status is re-raised, a success returns the JSON
search_releases(answer) ==
    CASE answer.status = "ok" ->
            [raised |-> FALSE, results |-> answer.results, next |-> answer.next]
      [] answer.status = "404" ->
            [raised |-> FALSE, results |-> <<>>, next |-> FALSE]
      [] OTHER ->
            [raised |-> TRUE, results |-> <<>>, next |-> FALSE]

\* NotFoundException(resource, resource_id): its detail
NotFoundException(resource, resource_id) ==
    <<resource, " with id ", resource_id, " not found">>

\* a resolver that takes the last result of the page
find_base_release_from_last_result(track_title, search_results) ==
    IF search_results.results # <<>>
       /\ search_results.results[Len(search_results.results)] # 0
    THEN [found |-> TRUE, id |-> search_results.results[Len(search_results.results)],
          detail |-> <<>>]
    ELSE [found |-> FALSE, id |-> 0,
          detail |-> NotFoundException("Discogs release for track", track_title)]

\* find_base_release_discogs_id_for_track, after its search has returned: the
\* id of the first result, or NotFoundException (id 0 here) with the track
\* title when there is no result or the first one carries no id
find_base_release_discogs_id_for_track(track_title, search_results) ==
    IF search_results.results # <<>> /\ search_results.results[1] # 0
    THEN [found |-> TRUE, id |-> search_results.results[1], detail |-> <<>>]
    ELSE [found |-> FALSE, id |-> 0,
          detail |-> NotFoundException("Discogs release for track", track_title)]

\* no call of the resolver yet
NoResolution ==
    [called |-> FALSE, track_title |-> "", artist_name |-> None,
     answer |-> SearchAnswer("ok", <<>>, FALSE), queries |-> <<>>,
     raised |-> "", id |-> 0, detail |-> <<>>]

(****************************** the catalog ********************************)
Catalog(rel, art, trk) == [releases |-> rel, artists |-> art, tracks |-> trk]

\* get_or_create_artist: by discogs_id (0 is treated as None), else by name
\* (filling in a missing discogs_id), else a new row
get_or_create_artist(artist_data, art) ==
    LET discogs_id == artist_data.id
        by_id == {a \in DOMAIN art : discogs_id # 0 /\ art[a].discogs_id = discogs_id}
        by_name == {a \in DOMAIN art : art[a].name = artist_data.name}
    IN  IF by_id # {}
        THEN [artists |-> art, id |-> CHOOSE a \in by_id : TRUE]
        ELSE IF by_name # {}
        THEN LET a == CHOOSE x \in by_name : TRUE
             IN  [artists |-> IF art[a].discogs_id = 0 /\ discogs_id # 0
                              THEN [art EXCEPT ![a].discogs_id = discogs_id]
                              ELSE art,
                  id |-> a]
        ELSE [artists |-> Append(art, [name |-> artist_data.name, discogs_id |-> discogs_id]),
              id |-> Len(art) + 1]

RECURSIVE LinkTrackArtists(_, _, _)
\* for track_artist_data in track_item["artists"]: get_or_create_artist, append
LinkTrackArtists(track_artists, art, linked) ==
    IF track_artists = <<>> THEN [artists |-> art, linked |-> linked]
    ELSE LET got == get_or_create_artist(Head(track_artists), art)
         IN  LinkTrackArtists(Tail(track_artists), got.artists, Append(linked, got.id))

RECURSIVE CreateTracks(_, _, _, _, _)
\* 5. Create Track objects and link artists: one row per item of type_
\* "track", with the item's artists or else the release's main artist
CreateTracks(tracklist, release_id, main_artist_id, art, trk) ==
    IF tracklist = <<>> THEN [artists |-> art, tracks |-> trk]
    ELSE LET track_item == Head(tracklist)
         IN  IF track_item.type_ # "track"
             THEN CreateTracks(Tail(tracklist), release_id, main_artist_id, art, trk)
             ELSE LET got == IF track_item.artists # <<>>
                             THEN LinkTrackArtists(track_item.artists, art, <<>>)
                             ELSE [artists |-> art,
                                   linked |-> IF main_artist_id # 0
                                              THEN <<main_artist_id>> ELSE <<>>]
                      new_track == [release_id |-> release_id,
                                    artists |-> got.linked,
                                    live |-> TRUE]
                  IN  CreateTracks(Tail(tracklist), release_id, main_artist_id,
                                   got.artists, Append(trk, new_track))

\* 3. to 5. of get_or_create_release_with_tracks: the primary artist, the
\* Release object and its Track objects, as the commit leaves them
InsertNewRelease(discogs_release_id, cat, data) ==
    LET main == IF data.artists # <<>>
                THEN get_or_create_artist(data.artists[1], cat.artists)
                ELSE [artists |-> cat.artists, id |-> 0]
        new_release == [discogs_id |-> discogs_release_id,
                        year |-> data.year,
                        label |-> data.label,
                        styles |-> data.styles,
                        artist_id |-> main.id]
        new_id == Len(cat.releases) + 1
        made == CreateTracks(data.tracklist, new_id, main.id, main.artists, cat.tracks)
    IN  [cat |-> Catalog(Append(cat.releases, new_release), made.artists, made.tracks),
         id |-> new_id]

\* the steps of 3. to 5. and the commit at which an exception may be raised
Steps == {"artist", "release", "tracks", "commit"}

\* What the session has flushed when the exception is raised at step: nothing
\* in get_or_create_artist for the primary artist; that artist at the flush
\* of the release; the artist and the release while the tracks are made; all
\* rows at the commit
Flushed(discogs_release_id, cat, data, step) ==
    LET main == IF data.artists # <<>>
                THEN get_or_create_artist(data.artists[1], cat.artists)
                ELSE [artists |-> cat.artists, id |-> 0]
        full == InsertNewRelease(discogs_release_id, cat, data).cat
    IN  CASE step = "artist" -> cat
          [] step = "release" -> Catalog(cat.releases, main.artists, cat.tracks)
          [] step = "tracks" -> Catalog(full.releases, main.artists, cat.tracks)
          [] OTHER -> full

\* a rollback that leaves the flushed rows in the tables
RollbackKeepingFlushed(cat, session) == session

\* await db.rollback(): what the session has flushed and not committed is
\* discarded; the tables are as cat, their committed content
Rollback(cat, session) == cat

\* get_or_create_release_with_tracks.  answer is what the provider returns
\* for this id if it is asked; commit_ok is whether the catalog store accepts
\* the transaction.  A failure rolls the session back and re-raises.
get_or_create_release_with_tracks(discogs_release_id, cat, answer, commit_ok) ==
    LET existing == {r \in DOMAIN cat.releases :
                        cat.releases[r].discogs_id = discogs_release_id}
    IN  IF existing # {}
        THEN [cat |-> cat, id |-> CHOOSE r \in existing : \A o \in existing : r <= o,
              raised |-> FALSE, fetched |-> FALSE]
        ELSE IF ~answer.ok \/ ~commit_ok
        THEN [cat |-> Rollback(cat, IF answer.ok
                                    THEN Flushed(discogs_release_id, cat, answer.data,
                                                 "commit")
                                    ELSE cat),
              id |-> 0, raised |-> TRUE, fetched |-> TRUE]
        ELSE LET new == InsertNewRelease(discogs_release_id, cat, answer.data)
             IN  [cat |-> new.cat, id |-> new.id, raised |-> FALSE, fetched |-> TRUE]

\* a runner that has not called get_or_create_release_with_tracks yet
Idle ==
    [phase |-> "idle", discogs_id |-> 0, data |-> DataBare, id |-> 0,
     lost |-> FALSE, added |-> <<0, 0, 0>>, failed |-> "none"]

(************************** candidate aggregation **************************)
Candidate(id, score) == [id |-> id, score |-> score]
CandidateIds(cands) == {cands[i].id : i \in DOMAIN cands}

RECURSIVE InsertBeforeEqual(_, _)
\* place item in front of the elements of the same score (not stable)
InsertBeforeEqual(sorted, item) ==
    IF sorted = <<>> THEN <<item>>
    ELSE IF Head(sorted).score > item.score
         THEN <<Head(sorted)>> \o InsertBeforeEqual(Tail(sorted), item)
         ELSE <<item>> \o sorted

RECURSIVE InsertByScore(_, _)
\* place item behind every element whose score is not smaller (stable)
InsertByScore(sorted, item) ==
    IF sorted = <<>> THEN <<item>>
    ELSE IF Head(sorted).score >= item.score
         THEN <<Head(sorted)>> \o InsertByScore(Tail(sorted), item)
         ELSE <<item>> \o sorted

RECURSIVE SortByScore(_)
\* list.sort(key=lambda x: x[1], reverse=True): descending and stable
SortByScore(cands) ==
    IF cands = <<>> THEN <<>>
    ELSE InsertByScore(SortByScore(SubSeq(cands, 1, Len(cands) - 1)), cands[Len(cands)])

RECURSIVE ScanReleasesWithBase(_, _, _, _)
\* a scan that does not leave out the base release
ScanReleasesWithBase(all_db_releases, base_id, rel, min_score_threshold) ==
    IF all_db_releases = <<>> THEN <<>>
    ELSE LET target == Head(all_db_releases)
             rest == ScanReleasesWithBase(Tail(all_db_releases), base_id, rel,
                                          min_score_threshold)
             score == calculate_release_similarity(rel[base_id], rel[target])
         IN  IF score > min_score_threshold
             THEN <<Candidate(target, score)>> \o rest
             ELSE rest

RECURSIVE ScanReleases(_, _, _, _)
\* the loop of find_similar_releases_in_db over the loaded releases
ScanReleases(all_db_releases, base_id, rel, min_score_threshold) ==
    IF all_db_releases = <<>> THEN <<>>
    ELSE LET target == Head(all_db_releases)
             rest == ScanReleases(Tail(all_db_releases), base_id, rel, min_score_threshold)
             score == calculate_release_similarity(rel[base_id], rel[target])
         IN  IF target = base_id THEN rest
             ELSE IF score > min_score_threshold
                  THEN <<Candidate(target, score)>> \o rest
                  ELSE rest

\* find_similar_releases_in_db: every other release scoring above the
\* threshold, sorted by score; all_db_releases is the order the store
\* returned the rows in
find_similar_releases_in_db(base_id, rel, all_db_releases, min_score_threshold) ==
    SortByScore(ScanReleases(all_db_releases, base_id, rel, min_score_threshold))

\* a merge that adds every local candidate, known id or not
MergeLocalKeepingAll(all_candidates_map, local_db_candidates) ==
    all_candidates_map \o local_db_candidates

RECURSIVE MergeLocal(_, _)
\* for rel_obj, score in local_db_candidates: add if the id is not in the map
MergeLocal(all_candidates_map, local_db_candidates) ==
    IF local_db_candidates = <<>> THEN all_candidates_map
    ELSE MergeLocal(
            IF Head(local_db_candidates).id \in CandidateIds(all_candidates_map)
            THEN all_candidates_map
            ELSE Append(all_candidates_map, Head(local_db_candidates)),
            Tail(local_db_candidates))

\* STEP 4 without the cut to the limit
TopReleasesUncut(all_candidates_map) == SortByScore(all_candidates_map)

\* STEP 4: list(all_candidates_map.values()), sort by score, cut to the limit
TopReleases(all_candidates_map) ==
    LET consolidated == SortByScore(all_candidates_map)
    IN  SubSeq(consolidated, 1,
               IF Len(consolidated) < DEFAULT_LIMIT_RELEASES_FOR_TRACK_COLLECTION
               THEN Len(consolidated)
               ELSE DEFAULT_LIMIT_RELEASES_FOR_TRACK_COLLECTION)

(***************************** the job runs ********************************)
\* The local variables of run_recommendation_pipeline_and_update_job and of
\* the get_track_recommendations call it makes
NewRun ==
    [base_discogs_id |-> 0,     \* what the resolver returned
     base |-> 0,                \* base_release.id
     not_found |-> FALSE,       \* the resolver raised NotFoundException
     raw |-> <<>>,              \* raw_discogs_search_results (ids)
     page_num |-> 1,
     idx |-> 1,                 \* next item of raw to process
     all_candidates_map |-> <<>>,
     top |-> <<>>,              \* top_releases_with_scores
     recommended |-> <<>>,      \* recommended_tracks (ids)
     error |-> <<>>,            \* str(e) of the exception that left the pipeline
     fetched |-> <<>>,          \* ids passed to discogs_service.get_release
     skipped |-> <<>>,          \* candidates whose processing raised (logged)
     expired |-> FALSE,         \* db.rollback() has expired base_release
     scored |-> <<>>,           \* the (release, score) pairs of the candidate loop
     min_score_threshold |-> None,  \* what the local scan was called with
     page_failed |-> FALSE]     \* a page of the style search raised

NoResponse ==
    [op |-> "none", job_id |-> 0, status_code |-> 0, detail |-> <<>>,
     job |-> <<>>, recommendations |-> <<>>]

Elapsed == Some("elapsed")

\* error_message = f"An unexpected error occurred: {str(e)}"
ErrorMessage(e) == <<"An unexpected error occurred: ">> \o e

CatalogNow == Catalog(releases, artists, tracks)

SetCatalog(cat) ==
    /\ releases' = cat.releases
    /\ artists' = cat.artists
    /\ tracks' = cat.tracks

CatalogUnchanged == UNCHANGED <<releases, artists, tracks>>

\* the pipeline raised e: control passes to the except branch of the run
Raise(j, e) ==
    /\ pc' = [pc EXCEPT ![j] = "fail"]
    /\ run' = [run EXCEPT ![j].error = e]

\* JobService.create_job, called with the request's parameters and owner
Create(job_create) ==
    /\ Len(jobs) < NumJobs
    /\ jobs' = Append(jobs, create_job(job_create))
    /\ pc' = [pc EXCEPT ![Len(jobs) + 1] = "created"]
    /\ UNCHANGED <<releases, artists, tracks, run, calls, runs, last, hyd, sim, res>>

\* The request layer hands the run of a new job to the event loop
Dispatch(j) ==
    /\ pc[j] = "created"
    /\ pc' = [pc EXCEPT ![j] = "start"]
    /\ runs' = [runs EXCEPT ![j] = @ + 1]
    /\ UNCHANGED <<jobs, releases, artists, tracks, run, calls, last, hyd, sim, res>>

\* run(job_id) invoked again for a job id whose earlier run has returned
Redispatch(j) ==
    /\ pc[j] \in {"done", "raised"}
    /\ runs[j] < MaxRuns
    /\ pc' = [pc EXCEPT ![j] = "start"]
    /\ run' = [run EXCEPT ![j] = NewRun]
    /\ calls' = [calls EXCEPT ![j] = <<>>]
    /\ runs' = [runs EXCEPT ![j] = @ + 1]
    /\ UNCHANGED <<jobs, releases, artists, tracks, last, hyd, sim, res>>

\* await job_service.update_job(job_id, JobUpdate(status=JobStatus.RUNNING))
RunStart(j) ==
    /\ pc[j] = "start"
    /\ jobs' = update_job(jobs, j, [status |-> RUNNING])
    /\ pc' = [pc EXCEPT ![j] = "resolve"]
    /\ UNCHANGED <<releases, artists, tracks, run, calls, runs, last, hyd, sim, res>>

\* STEP 1.1: the seed search and the resolver; NotFoundException is caught by
\* get_track_recommendations, which returns []
Resolve(j, answer) ==
    /\ pc[j] = "resolve"
    /\ calls' = [calls EXCEPT ![j] = Append(@, "search")]
    /\ LET search_results == search_releases(answer)
           found == find_base_release_discogs_id_for_track(
                        jobs[j].parameters.track_title, search_results)
       IN  IF search_results.raised
           THEN Raise(j, <<"Discogs API HTTP error">>)
           ELSE IF ~found.found
           THEN /\ pc' = [pc EXCEPT ![j] = "complete"]
                /\ run' = [run EXCEPT ![j].not_found = TRUE, ![j].recommended = <<>>]
           ELSE /\ pc' = [pc EXCEPT ![j] = "hydrate_base"]
                /\ run' = [run EXCEPT ![j].base_discogs_id = found.id]
    /\ UNCHANGED <<jobs, releases, artists, tracks, runs, last, hyd, sim, res>>

\* a pipeline that runs the style search whatever the base release's styles
StyleSourceAlways(base_release) == "style_search"

\* if base_release.styles: the style search and the candidates; else neither
StyleSource(base_release) ==
    IF base_release.styles # <<>> THEN "style_search" ELSE "local_scan"

\* STEP 1.2: get or create the base release; an exception leaves the pipeline
HydrateBase(j, answer, commit_ok) ==
    /\ pc[j] = "hydrate_base"
    /\ LET got == get_or_create_release_with_tracks(
                      run[j].base_discogs_id, CatalogNow, answer, commit_ok)
       IN  /\ calls' = [calls EXCEPT ![j] =
                          IF got.fetched THEN Append(@, "get_release") ELSE @]
           /\ SetCatalog(got.cat)
           /\ IF got.raised
              THEN /\ pc' = [pc EXCEPT ![j] = "fail"]
                   /\ run' = [run EXCEPT
                                ![j].error = IF answer.ok THEN <<"catalog error">>
                                             ELSE <<"Discogs API error">>,
                                ![j].fetched = IF got.fetched
                                               THEN Append(@, run[j].base_discogs_id)
                                               ELSE @]
              ELSE /\ run' = [run EXCEPT
                                ![j].base = got.id,
                                ![j].fetched = IF got.fetched
                                               THEN Append(@, run[j].base_discogs_id)
                                               ELSE @]
                   /\ pc' = [pc EXCEPT ![j] = StyleSource(got.cat.releases[got.id])]
    /\ UNCHANGED <<jobs, runs, last, hyd, sim, res>>

\* a style search whose error leaves the pipeline
StyleSearchFailClosed(j, answer) ==
    /\ pc[j] = "style_search"
    /\ calls' = [calls EXCEPT ![j] = Append(@, "search")]
    /\ LET search_page_data == search_releases(answer)
       IN  IF search_page_data.raised
           THEN /\ run' = [run EXCEPT ![j].page_failed = TRUE,
                                      ![j].error = <<"Discogs API HTTP error">>]
                /\ pc' = [pc EXCEPT ![j] = "fail"]
           ELSE /\ run' = [run EXCEPT ![j].raw = @ \o search_page_data.results]
                /\ pc' = [pc EXCEPT ![j] =
                            IF run'[j].raw = <<>> THEN "local_scan" ELSE "candidates"]
    /\ UNCHANGED <<jobs, releases, artists, tracks, runs, last, hyd, sim, res>>

\* STEP 2, one page of the style search: the results are kept; the loop ends
\* on an exception, on a page without a next url and after the last page
StyleSearch(j, answer) ==
    /\ pc[j] = "style_search"
    /\ calls' = [calls EXCEPT ![j] = Append(@, "search")]
    /\ LET search_page_data == search_releases(answer)
           raw == IF search_page_data.raised THEN run[j].raw
                  ELSE run[j].raw \o search_page_data.results
           more == /\ ~search_page_data.raised
                   /\ search_page_data.next
                   /\ run[j].page_num < DISCOGS_SIMILAR_SEARCH_PAGES
       IN  /\ run' = [run EXCEPT ![j].raw = raw,
                                 ![j].page_num = IF more THEN @ + 1 ELSE @,
                                 ![j].page_failed = search_page_data.raised]
           /\ pc' = [pc EXCEPT ![j] =
                       IF more THEN "style_search"
                       ELSE IF raw = <<>> THEN "local_scan" ELSE "candidates"]
    /\ UNCHANGED <<jobs, releases, artists, tracks, runs, last, hyd, sim, res>>

\* The session's objects after await db.rollback() in the except branch of
\* get_or_create_release_with_tracks: a rollback expires every object the
\* session has loaded, base_release among them, and the asynchronous session
\* cannot reload an expired attribute when it is read: the read raises
ExpiredRead == <<"MissingGreenlet">>

\* One round of the loop over raw_discogs_search_results: skip the base
\* release and items without id (reading base_release.discogs_id, outside the
\* try); else get or create the release, score it and keep it if it reaches
\* the threshold; an exception skips the item; then the pacing delay
ProcessCandidate(j, answer, commit_ok) ==
    /\ pc[j] = "candidates"
    /\ LET discogs_id == run[j].raw[run[j].idx]
           got == get_or_create_release_with_tracks(
                      discogs_id, CatalogNow, answer, commit_ok)
           score == calculate_release_similarity(
                        got.cat.releases[run[j].base], got.cat.releases[got.id])
           keep == /\ ~got.raised
                   /\ got.id \notin CandidateIds(run[j].all_candidates_map)
                   /\ score >= MIN_SCORE_FOR_CANDIDACY
           next_pc == IF run[j].idx = Len(run[j].raw) THEN "local_scan" ELSE "candidates"
       IN  IF discogs_id = 0
           THEN /\ CatalogUnchanged
                /\ UNCHANGED calls
                /\ run' = [run EXCEPT ![j].idx = @ + 1]
                /\ pc' = [pc EXCEPT ![j] = next_pc]
           ELSE IF run[j].expired
           THEN /\ CatalogUnchanged
                /\ UNCHANGED calls
                /\ Raise(j, ExpiredRead)
           ELSE IF discogs_id = releases[run[j].base].discogs_id
           THEN /\ CatalogUnchanged
                /\ UNCHANGED calls
                /\ run' = [run EXCEPT ![j].idx = @ + 1]
                /\ pc' = [pc EXCEPT ![j] = next_pc]
           ELSE /\ SetCatalog(got.cat)
                /\ calls' = [calls EXCEPT ![j] =
                               (IF got.fetched THEN Append(@, "get_release") ELSE @)
                               \o <<"sleep">>]
                /\ run' = [run EXCEPT
                             ![j].idx = @ + 1,
                             ![j].fetched = IF got.fetched THEN Append(@, discogs_id) ELSE @,
                             ![j].skipped = IF got.raised THEN Append(@, discogs_id) ELSE @,
                             ![j].expired = got.raised,
                             ![j].scored =
                                 IF ~got.raised
                                    /\ got.id \notin CandidateIds(run[j].all_candidates_map)
                                 THEN Append(@, Candidate(got.id, score)) ELSE @,
                             ![j].all_candidates_map =
                                 IF keep THEN Append(@, Candidate(got.id, score)) ELSE @]
                /\ pc' = [pc EXCEPT ![j] = next_pc]
    /\ UNCHANGED <<jobs, runs, last, hyd, sim, res>>

\* STEP 3 and STEP 4: the local scan (find_similar_releases_in_db reads
\* base_release.title first; all_db_releases is the order the rows came back
\* in), the merge, the sort and the cut; with no candidate the pipeline
\* returns []
LocalScan(j, all_db_releases, query_ok) ==
    /\ pc[j] = "local_scan"
    /\ IF run[j].expired
       THEN Raise(j, ExpiredRead)
       ELSE IF ~query_ok
       THEN Raise(j, <<"catalog error">>)
       ELSE LET min_score_threshold == MIN_SCORE_FOR_CANDIDACY
                local_db_candidates ==
                    find_similar_releases_in_db(run[j].base, releases, all_db_releases,
                                                min_score_threshold)
                merged == MergeLocal(run[j].all_candidates_map, local_db_candidates)
                top == TopReleases(merged)
            IN  /\ run' = [run EXCEPT ![j].all_candidates_map = merged, ![j].top = top,
                                      ![j].min_score_threshold = Some(min_score_threshold)]
                /\ pc' = [pc EXCEPT ![j] = IF top = <<>> THEN "complete" ELSE "tracks"]
    /\ UNCHANGED <<jobs, releases, artists, tracks, calls, runs, last, hyd, sim, res>>

\* the rows select(Track).where(Track.release_id.in_(ids)) matches
TracksOfReleases(ids) ==
    {t \in DOMAIN tracks : tracks[t].live /\ tracks[t].release_id \in ids}

\* STEP 5: one query for the tracks of the top releases; rows is the order
\* the store returned them in (the query has no ORDER BY)
CollectTracks(j, rows, query_ok) ==
    /\ pc[j] = "tracks"
    /\ IF ~query_ok
       THEN Raise(j, <<"catalog error">>)
       ELSE /\ Range(rows) = TracksOfReleases(CandidateIds(run[j].top))
            /\ Len(rows) = Cardinality(Range(rows))
            /\ run' = [run EXCEPT ![j].recommended = rows]
            /\ pc' = [pc EXCEPT ![j] = "complete"]
    /\ UNCHANGED <<jobs, releases, artists, tracks, calls, runs, last, hyd, sim, res>>

\* a completion that writes the status and leaves the result for later
CompletedUpdateStatusOnly(track_ids) ==
    [status |-> COMPLETED, duration_s |-> Elapsed]

\* a completion that stores the track ids sorted
CompletedUpdateSortedIds(track_ids) ==
    [status |-> COMPLETED, result |-> TrackIdsResult(Ascending(Range(track_ids))),
     duration_s |-> Elapsed]

\* JobUpdate(status=COMPLETED, result={"track_ids": track_ids}, duration_s=duration)
CompletedUpdate(track_ids) ==
    [status |-> COMPLETED, result |-> TrackIdsResult(track_ids), duration_s |-> Elapsed]

\* a handler that stores the error and leaves the status as it is
FailedUpdateWithoutStatus(error_message) ==
    [result |-> ErrorResult(error_message), duration_s |-> Elapsed]

\* JobUpdate(status=FAILED, result={"error": error_message}, duration_s=duration)
FailedUpdate(error_message) ==
    [status |-> FAILED, result |-> ErrorResult(error_message), duration_s |-> Elapsed]

\* the pipeline returned: the update of the try branch
RunComplete(j) ==
    /\ pc[j] = "complete"
    /\ jobs' = update_job(jobs, j, CompletedUpdate(run[j].recommended))
    /\ pc' = [pc EXCEPT ![j] = "done"]
    /\ UNCHANGED <<releases, artists, tracks, run, calls, runs, last, hyd, sim, res>>

\* except Exception as e: the update of the handler
RunFail(j) ==
    /\ pc[j] = "fail"
    /\ jobs' = update_job(jobs, j, FailedUpdate(ErrorMessage(run[j].error)))
    /\ pc' = [pc EXCEPT ![j] = "done"]
    /\ UNCHANGED <<releases, artists, tracks, run, calls, runs, last, hyd, sim, res>>

(******************************* pollers ***********************************)
Response(op, job_id, status_code, detail, job, recommendations) ==
    [op |-> op, job_id |-> job_id, status_code |-> status_code, detail |-> detail,
     job |-> job, recommendations |-> recommendations]

\* JobService.get_job: the row or None
get_job(job_id) == IF job_id \in DOMAIN jobs THEN Some(jobs[job_id]) ELSE None

\* GET /{job_id}
get_job_status(job_id) ==
    LET job == get_job(job_id)
    IN  IF job = None
        THEN Response("get_job_status", job_id, 404, <<"Job not found">>, None, <<>>)
        ELSE Response("get_job_status", job_id, 200, <<>>, job, <<>>)

\* a result endpoint that answers 404 for a job that is not complete
get_job_result_not_found_when_incomplete(job_id) ==
    LET job == get_job(job_id)
    IN  IF job = None \/ job[1].status # COMPLETED
        THEN Response("get_job_result", job_id, 404, <<"Job not found.">>, None, <<>>)
        ELSE Response("get_job_result", job_id, 200, <<>>, None,
                      SeqFilter(job[1].result.track_ids,
                                {t \in DOMAIN tracks : tracks[t].live}))

\* a result endpoint that returns the tracks in the order of the query's rows
get_job_result_in_row_order(job_id) ==
    LET job == get_job(job_id)
    IN  IF job = None
        THEN Response("get_job_result", job_id, 404, <<"Job not found.">>, None, <<>>)
        ELSE IF job[1].status # COMPLETED
        THEN Response("get_job_result", job_id, 422,
                      <<"Job is not complete. Current status: ", job[1].status, ".">>,
                      None, <<>>)
        ELSE Response("get_job_result", job_id, 200, <<>>, None,
                      Ascending({t \in DOMAIN tracks :
                                    tracks[t].live /\ t \in Range(job[1].result.track_ids)}))

\* a result endpoint that tells the poller of a failed job what went wrong
get_job_result_with_error(job_id) ==
    LET job == get_job(job_id)
    IN  IF job = None
        THEN Response("get_job_result", job_id, 404, <<"Job not found.">>, None, <<>>)
        ELSE IF job[1].status = FAILED
        THEN Response("get_job_result", job_id, 500, job[1].result.error, None, <<>>)
        ELSE IF job[1].status # COMPLETED
        THEN Response("get_job_result", job_id, 422,
                      <<"Job is not complete. Current status: ", job[1].status, ".">>,
                      None, <<>>)
        ELSE Response("get_job_result", job_id, 200, <<>>, None,
                      SeqFilter(job[1].result.track_ids,
                                {t \in DOMAIN tracks : tracks[t].live}))

\* GET /{job_id}/result
get_job_result_as_tracklist(job_id) ==
    LET job == get_job(job_id)
    IN  IF job = None
        THEN Response("get_job_result", job_id, 404, <<"Job not found.">>, None, <<>>)
        ELSE IF job[1].status # COMPLETED
        THEN Response("get_job_result", job_id, 422,
                      <<"Job is not complete. Current status: ", job[1].status, ".">>,
                      None, <<>>)
        ELSE IF job[1].result.kind # "track_ids"
        THEN Response("get_job_result", job_id, 404,
                      <<"Job completed but no track IDs were found in the result.">>,
                      None, <<>>)
        ELSE LET track_ids == job[1].result.track_ids
                 track_map == {t \in DOMAIN tracks : tracks[t].live /\ t \in Range(track_ids)}
                 ordered_tracks == SeqFilter(track_ids, track_map)
             IN  Response("get_job_result", job_id, 200, <<>>, None, ordered_tracks)

GetJobStatus(job_id) ==
    /\ last' = get_job_status(job_id)
    /\ UNCHANGED <<jobs, releases, artists, tracks, pc, run, calls, runs, hyd, sim, res>>

GetJobResult(job_id) ==
    /\ last' = get_job_result_as_tracklist(job_id)
    /\ UNCHANGED <<jobs, releases, artists, tracks, pc, run, calls, runs, hyd, sim, res>>

\* the track ids some job holds as its result
StoredTrackIds == UNION {Range(jobs[j].result.track_ids) : j \in DOMAIN jobs}

\* The catalog store drops a track row that a stored result refers to (the
\* catalog is not owned by the jobs; rows no result refers to are left alone)
RemoveTrack(t) ==
    /\ t \in StoredTrackIds
    /\ tracks[t].live
    /\ tracks' = [tracks EXCEPT ![t].live = FALSE]
    /\ UNCHANGED <<jobs, releases, artists, pc, run, calls, runs, last, hyd, sim, res>>

(************************* failures of the job table ***********************)
\* update_job(RUNNING) raises: it is called before the try block
RunStartFails(j) ==
    /\ pc[j] = "start"
    /\ pc' = [pc EXCEPT ![j] = "raised"]
    /\ UNCHANGED <<jobs, releases, artists, tracks, run, calls, runs, last, hyd, sim, res>>

\* update_job(COMPLETED) raises inside the try block: the handler takes over
RunCompleteFails(j) ==
    /\ pc[j] = "complete"
    /\ Raise(j, <<"job table error">>)
    /\ UNCHANGED <<jobs, releases, artists, tracks, calls, runs, last, hyd, sim, res>>

\* update_job(FAILED) raises inside the handler
RunFailFails(j) ==
    /\ pc[j] = "fail"
    /\ pc' = [pc EXCEPT ![j] = "raised"]
    /\ UNCHANGED <<jobs, releases, artists, tracks, run, calls, runs, last, hyd, sim, res>>

(************************** inputs and specifications **********************)
\* the requests a caller submits: JobCreate(job_type, parameters, user_id)
JobCreate(track_title, artist_name, user_id) ==
    [job_type |-> "recommendation",
     parameters |-> [track_title |-> track_title, artist_name |-> artist_name],
     user_id |-> user_id]

Requests ==
    {JobCreate("Nonexistent Song XYZ", None, None),
     JobCreate("Strings Of Life", Some("Derrick May"), Some(7))}

\* what the provider may answer to the seed search
SeedAnswers ==
    {SearchAnswer("ok", <<e>>, FALSE) : e \in ExtIds \cup {0}}
    \cup {SearchAnswer("ok", <<>>, FALSE), SearchAnswer("404", <<>>, FALSE),
          SearchAnswer("500", <<>>, FALSE)}

\* what the provider may answer to a style search
StyleAnswers ==
    {SearchAnswer("ok", r, n) : r \in SeqsUpTo(ExtIds \cup {0}, MaxResults), n \in BOOLEAN}
    \cup {SearchAnswer("404", <<>>, FALSE), SearchAnswer("500", <<>>, FALSE)}

\* what the provider may answer to GET /releases/{id}
ReleaseAnswers ==
    {GetReleaseOk(DataHouse), GetReleaseOk(DataDeep), GetReleaseOk(DataBare),
     GetReleaseError}

Init ==
    /\ jobs = <<>>
    /\ releases = <<>>
    /\ artists = <<>>
    /\ tracks = <<>>
    /\ pc = [j \in JobIds |-> "absent"]
    /\ run = [j \in JobIds |-> NewRun]
    /\ calls = [j \in JobIds |-> <<>>]
    /\ runs = [j \in JobIds |-> 0]
    /\ last = NoResponse
    /\ hyd = [w \in Runners |-> Idle]
    /\ sim = NoSimilarity
    /\ res = NoResolution

PollIds == 1..(NumJobs + 1)

\* the steps of the run of job j, the provider answering from the given sets
Pipeline(j, seed_answers, style_answers, release_answers) ==
    \/ RunStart(j)
    \/ \E answer \in seed_answers : Resolve(j, answer)
    \/ \E answer \in release_answers, commit_ok \in BOOLEAN :
            HydrateBase(j, answer, commit_ok)
    \/ \E answer \in style_answers : StyleSearch(j, answer)
    \/ \E answer \in release_answers, commit_ok \in BOOLEAN :
            ProcessCandidate(j, answer, commit_ok)
    \/ \E all_db_releases \in ScanOrders(DOMAIN releases), query_ok \in BOOLEAN :
            LocalScan(j, all_db_releases, query_ok)
    \/ \E rows \in ScanOrders(TracksOfReleases(CandidateIds(run[j].top))),
          query_ok \in BOOLEAN :
            CollectTracks(j, rows, query_ok)
    \/ RunComplete(j)
    \/ RunFail(j)

Pollers ==
    \/ \E job_id \in PollIds : GetJobStatus(job_id)
    \/ \E job_id \in PollIds : GetJobResult(job_id)

Environment ==
    \/ \E job_create \in Requests : Create(job_create)
    \/ \E j \in JobIds : Dispatch(j)
    \/ \E t \in DOMAIN tracks : RemoveTrack(t)

\* the answers of the provider in the specification of the jobs
JobSeedAnswers ==
    {SearchAnswer("ok", <<1>>, FALSE), SearchAnswer("ok", <<>>, FALSE),
     SearchAnswer("500", <<>>, FALSE)}
JobStyleAnswers ==
    {SearchAnswer("ok", <<2>>, FALSE), SearchAnswer("500", <<>>, FALSE)}
JobReleaseAnswers == {GetReleaseOk(DataHouse), GetReleaseError}

Next ==
    \/ Environment
    \/ Pollers
    \/ \E j \in JobIds : Pipeline(j, JobSeedAnswers, JobStyleAnswers, JobReleaseAnswers)

\* every job is run once; the job table does not fail
Spec == Init /\ [][Next]_vars

\* the runs alone, without pollers: the provider answers a release with
\* styles, one without, or an error, and a style search may list the base
\* release itself
FairReleaseAnswers == JobReleaseAnswers \cup {GetReleaseOk(DataUntagged)}

FairStyleAnswers == JobStyleAnswers \cup {SearchAnswer("ok", <<1, 2>>, FALSE)}

RunOf(j) == Pipeline(j, JobSeedAnswers, FairStyleAnswers, FairReleaseAnswers)

NextRuns ==
    \/ \E job_create \in Requests : Create(job_create)
    \/ \E j \in JobIds : Dispatch(j)
    \/ \E j \in JobIds : RunOf(j)

\* the event loop keeps running every run that can take a step
SpecFair == Init /\ [][NextRuns]_vars /\ \A j \in JobIds : WF_vars(RunOf(j))

\* JobService.update_job called for a job with a status of the caller's choice
UpdateJob(j, status) ==
    /\ j \in DOMAIN jobs
    /\ jobs' = update_job(jobs, j, [status |-> status])
    /\ UNCHANGED <<releases, artists, tracks, pc, run, calls, runs, last, hyd, sim, res>>

\* as Spec, and any caller may ask for a status update at any time
SpecUpdates == Init /\ [][Next \/ \E j \in JobIds, status \in JobStatus : UpdateJob(j, status)]_vars

(****************** get-or-create of a release, step by step ***************)
\* a table without the unique index on releases.discogs_id
NoUniqueIndex(rel, discogs_release_id) == FALSE

\* discogs_id = Column(Integer, unique=True, ...): the table holds a row with
\* this external id, so the INSERT of another one is refused
UniqueViolation(rel, discogs_release_id) ==
    \E r \in DOMAIN rel : rel[r].discogs_id = discogs_release_id

\* a lookup that does not find the release
LookupReleaseMissing(w, discogs_release_id) ==
    /\ hyd[w].phase = "idle"
    /\ hyd' = [hyd EXCEPT ![w] = [@ EXCEPT !.phase = "absent",
                                          !.discogs_id = discogs_release_id]]
    /\ UNCHANGED <<jobs, releases, artists, tracks, pc, run, calls, runs, last, sim, res>>

\* 1. Check DB for the release: return it, or go on to the provider
LookupRelease(w, discogs_release_id) ==
    /\ hyd[w].phase = "idle"
    /\ LET existing == {r \in DOMAIN releases :
                           releases[r].discogs_id = discogs_release_id}
       IN  hyd' = [hyd EXCEPT ![w] =
                     IF existing # {}
                     THEN [@ EXCEPT !.phase = "returned",
                                    !.discogs_id = discogs_release_id,
                                    !.id = CHOOSE r \in existing : \A o \in existing : r <= o]
                     ELSE [@ EXCEPT !.phase = "absent",
                                    !.discogs_id = discogs_release_id]]
    /\ UNCHANGED <<jobs, releases, artists, tracks, pc, run, calls, runs, last, sim, res>>

\* 2. Fetch from Discogs API; an error rolls back and is re-raised
FetchRelease(w, answer) ==
    /\ hyd[w].phase = "absent"
    /\ hyd' = [hyd EXCEPT ![w] =
                 IF answer.ok
                 THEN [@ EXCEPT !.phase = "fetched", !.data = answer.data]
                 ELSE [@ EXCEPT !.phase = "raised", !.failed = "fetch"]]
    /\ UNCHANGED <<jobs, releases, artists, tracks, pc, run, calls, runs, last, sim, res>>

\* 3. to 5. and the commit, one transaction: the artist, the release, the
\* tracks.  failed is the step at which the store raises, if any.  The INSERT
\* of the release fails on the unique index if another execution has
\* committed the same external id since the lookup; every failure rolls the
\* transaction back and is re-raised
InsertRelease(w, failed) ==
    /\ hyd[w].phase = "fetched"
    /\ LET lost == failed # "artist" /\ UniqueViolation(releases, hyd[w].discogs_id)
           step == IF lost THEN "release" ELSE failed
           new == InsertNewRelease(hyd[w].discogs_id, CatalogNow, hyd[w].data)
           raised == step # "none"
           cat == IF raised
                  THEN Rollback(CatalogNow,
                                Flushed(hyd[w].discogs_id, CatalogNow, hyd[w].data, step))
                  ELSE new.cat
       IN  /\ SetCatalog(cat)
           /\ hyd' = [hyd EXCEPT ![w] =
                        [@ EXCEPT !.phase = IF raised THEN "raised" ELSE "returned",
                                  !.lost = lost,
                                  !.failed = step,
                                  !.id = IF raised THEN 0 ELSE new.id,
                                  !.added = <<Len(cat.releases) - Len(releases),
                                              Len(cat.artists) - Len(artists),
                                              Len(cat.tracks) - Len(tracks)>>]]
    /\ UNCHANGED <<jobs, pc, run, calls, runs, last, sim, res>>

NextRace ==
    \E w \in Runners :
        \/ \E discogs_release_id \in ExtIds : LookupRelease(w, discogs_release_id)
        \/ \E answer \in ReleaseAnswers : FetchRelease(w, answer)
        \/ \E failed \in Steps \cup {"none"} : InsertRelease(w, failed)

\* concurrent executions of get_or_create_release_with_tracks on one catalog
SpecRace == Init /\ [][NextRace]_vars

(*********************** the similarity of two releases ********************)
Tags == {"House", "house", "techno"}
StyleLists == SeqsUpTo(Tags, MaxStyles)

\* the base releases and the releases they are compared with
BaseRows ==
    {ReleaseRow(1, styles, label, year, artist_id) :
        styles \in StyleLists, label \in {"", "X"}, year \in {0, 2000},
        artist_id \in {0, 1}}
TargetRows ==
    {ReleaseRow(2, styles, label, year, artist_id) :
        styles \in StyleLists, label \in {"", "x", "X", "Y"},
        year \in {0, 1985, 1990, 1995, 2000}, artist_id \in {0, 1, 2}}

\* the two releases are given; nothing has been computed yet
Unscored(base_release, target_release) ==
    [NoSimilarity EXCEPT !.base = base_release, !.target = target_release]

InitScore ==
    /\ jobs = <<>>
    /\ releases = <<>>
    /\ artists = <<>>
    /\ tracks = <<>>
    /\ pc = [j \in JobIds |-> "absent"]
    /\ run = [j \in JobIds |-> NewRun]
    /\ calls = [j \in JobIds |-> <<>>]
    /\ runs = [j \in JobIds |-> 0]
    /\ last = NoResponse
    /\ hyd = [w \in Runners |-> Idle]
    /\ \E base_release \in BaseRows, target_release \in TargetRows :
            sim = Unscored(base_release, target_release)
    /\ res = NoResolution

Score ==
    /\ ~sim.computed
    /\ sim' = Similarity(sim.base, sim.target)
    /\ UNCHANGED <<jobs, releases, artists, tracks, pc, run, calls, runs, last, hyd, res>>

\* calculate_release_similarity applied to pairs of releases
SpecScore == InitScore /\ [][Score]_vars

(****************************** the resolver *******************************)
\* the resolver is about to be called with a seed; answer is what the
\* provider returns to a search
Unresolved(track_title, artist_name, answer) ==
    [NoResolution EXCEPT !.track_title = track_title, !.artist_name = artist_name,
                         !.answer = answer]

InitResolve ==
    /\ jobs = <<>>
    /\ releases = <<>>
    /\ artists = <<>>
    /\ tracks = <<>>
    /\ pc = [j \in JobIds |-> "absent"]
    /\ run = [j \in JobIds |-> NewRun]
    /\ calls = [j \in JobIds |-> <<>>]
    /\ runs = [j \in JobIds |-> 0]
    /\ last = NoResponse
    /\ hyd = [w \in Runners |-> Idle]
    /\ sim = NoSimilarity
    /\ \E request \in Requests, answer \in SeedAnswers \cup StyleAnswers :
            res = Unresolved(request.parameters.track_title,
                             request.parameters.artist_name, answer)

\* find_base_release_discogs_id_for_track as a whole: the query of title and
\* artist, the search (whose HTTP error passes through) and the first result
FindBaseRelease ==
    /\ ~res.called
    /\ LET query == <<res.track_title>> \o res.artist_name
           search_results == search_releases(res.answer)
           found == find_base_release_discogs_id_for_track(res.track_title, search_results)
       IN  res' = [res EXCEPT
                     !.called = TRUE,
                     !.queries = Append(@, query),
                     !.raised = IF search_results.raised THEN "HTTPStatusError"
                                ELSE IF ~found.found THEN "NotFoundException" ELSE "",
                     !.id = IF search_results.raised THEN 0 ELSE found.id,
                     !.detail = IF search_results.raised THEN <<>> ELSE found.detail]
    /\ UNCHANGED <<jobs, releases, artists, tracks, pc, run, calls, runs, last, hyd, sim>>

\* the resolver applied to seeds and provider answers
SpecResolve == InitResolve /\ [][FindBaseRelease]_vars

StoreFaults ==
    \E j \in JobIds : RunStartFails(j) \/ RunCompleteFails(j) \/ RunFailFails(j)

\* as Spec, and an update of the job table may raise
SpecStoreFaults == Init /\ [][Next \/ StoreFaults]_vars

\* as Spec, and run may be invoked again for a job id
SpecRerun == Init /\ [][Next \/ \E j \in JobIds : Redispatch(j)]_vars

(******************** one pipeline execution, every input ******************)
WithoutTracks(data) == [data EXCEPT !.tracklist = <<>>]

\* the releases earlier requests left in the catalog, in the order they were
\* hydrated: which data release i was created from
Patterns ==
    {<<DataHouse, DataDeep>>, <<DataHouse, DataDeep, DataBare>>, <<DataDeep, DataHouse>>,
     <<DataUntagged, DataHouse>>}

RECURSIVE Hydrated(_, _)
\* the catalog after releases 1..n were got or created from pattern
Hydrated(n, pattern) ==
    IF n = 0 THEN Catalog(<<>>, <<>>, <<>>)
    ELSE LET data == pattern[((n - 1) % Len(pattern)) + 1]
         IN  get_or_create_release_with_tracks(
                 n, Hydrated(n - 1, pattern),
                 GetReleaseOk(IF n <= 3 THEN data ELSE WithoutTracks(data)), TRUE).cat

\* how many releases the catalog holds when the run starts: none, the two a
\* first request leaves, and sizes around the cut of the ranked list
CatalogSizes == {0, 2, MaxCatalog - 2, MaxCatalog}

InitPipeline ==
    /\ \E n \in CatalogSizes, pattern \in Patterns :
            LET cat == Hydrated(n, pattern)
            IN  /\ releases = cat.releases
                /\ artists = cat.artists
                /\ tracks = cat.tracks
    /\ jobs = <<create_job(JobCreate("Strings Of Life", Some("Derrick May"), Some(7)))>>
    /\ pc = [j \in JobIds |-> IF j = 1 THEN "start" ELSE "absent"]
    /\ run = [j \in JobIds |-> NewRun]
    /\ calls = [j \in JobIds |-> <<>>]
    /\ runs = [j \in JobIds |-> IF j = 1 THEN 1 ELSE 0]
    /\ last = NoResponse
    /\ hyd = [w \in Runners |-> Idle]
    /\ sim = NoSimilarity
    /\ res = NoResolution

NextPipeline == Pipeline(1, SeedAnswers, StyleAnswers, ReleaseAnswers)

\* the run of one job over a catalog that already holds releases, the
\* provider answering in every way
SpecPipeline == InitPipeline /\ [][NextPipeline]_vars

(*************************** properties: jobs ******************************)
Terminal(status) == status \in {COMPLETED, FAILED}

\* the place of a status in PENDING < RUNNING < COMPLETED, FAILED
StatusRank(status) ==
    CASE status = PENDING -> 0
      [] status = RUNNING -> 1
      [] OTHER -> 2

\* C1: once a job is COMPLETED or FAILED, no step changes its status, result
\* or duration, and no step moves a status backwards -- also when run is
\* invoked a second time for the job id.
C1_TerminalIsFinal ==
    [][\A j \in DOMAIN jobs :
          /\ StatusRank(jobs'[j].status) >= StatusRank(jobs[j].status)
          /\ Terminal(jobs[j].status) =>
                /\ jobs'[j].status = jobs[j].status
                /\ jobs'[j].result = jobs[j].result
                /\ jobs'[j].duration_s = jobs[j].duration_s]_vars

\* C2: a run whose seed could not be resolved ends with the job FAILED and an
\* error message that contains the track title; it does not end COMPLETED.
C2_UnresolvedSeedFails ==
    \A j \in DOMAIN jobs :
        (pc[j] = "done" /\ run[j].not_found) =>
            /\ jobs[j].status = FAILED
            /\ jobs[j].parameters.track_title \in Range(jobs[j].result.error)

\* C3: for a PENDING or RUNNING job get_result answers "not complete" (422)
\* without tracks; an unknown id is answered 404; and 422 is the answer for
\* no job that is COMPLETED or unknown, so the condition cannot be mistaken
\* for NotFound or for the missing-track-ids error.
C3_NotReadyIsDistinct ==
    \A job_id \in PollIds :
        LET r == get_job_result_as_tracklist(job_id)
            known == job_id \in DOMAIN jobs
        IN  /\ (known /\ jobs[job_id].status \in {PENDING, RUNNING}) =>
                    /\ r.status_code = 422
                    /\ r.recommendations = <<>>
                    /\ jobs[job_id].status \in Range(r.detail)
            /\ ~known => (r.status_code = 404 /\ r.recommendations = <<>>)
            /\ r.status_code = 422 => (known /\ jobs[job_id].status # COMPLETED)
            /\ r.status_code \in {200, 404, 422}

\* a poller was told "not complete" about a job that is RUNNING
C3_Witness ==
    /\ last.op = "get_job_result"
    /\ last.status_code = 422
    /\ last.job_id \in DOMAIN jobs
    /\ jobs[last.job_id].status = RUNNING
    /\ RUNNING \in Range(last.detail)

\* the index of x in a sequence without repetitions
Pos(s, x) == CHOOSE i \in DOMAIN s : s[i] = x

\* C4: for a COMPLETED job get_result answers 200 with exactly the stored
\* track ids that still resolve, each once, in the stored order.
C4_StoredOrderKept ==
    \A job_id \in DOMAIN jobs :
        jobs[job_id].status = COMPLETED =>
            LET r == get_job_result_as_tracklist(job_id)
                stored == jobs[job_id].result.track_ids
                out == r.recommendations
            IN  /\ r.status_code = 200
                /\ Range(out) = {t \in Range(stored) : t \in DOMAIN tracks /\ tracks[t].live}
                /\ \A i, k \in DOMAIN out :
                        i < k => (out[i] # out[k] /\ Pos(stored, out[i]) < Pos(stored, out[k]))

\* a poller received the tracks of a job whose stored list is not in id order
\* and holds an id that no longer resolves
C4_Witness ==
    /\ last.op = "get_job_result"
    /\ last.status_code = 200
    /\ last.job_id \in DOMAIN jobs
    /\ last = get_job_result_as_tracklist(last.job_id)
    /\ LET stored == jobs[last.job_id].result.track_ids
       IN  /\ Len(stored) >= 2
           /\ stored[1] > stored[2]
           /\ last.recommendations # <<>>
           /\ Len(last.recommendations) < Len(stored)

\* C5: (one run per job) whatever a poller reads has one of the four
\* statuses and a result that fits it: PENDING and RUNNING come without result
\* and duration, COMPLETED with the track id list, FAILED with an error.
C5_PollerSeesConsistentJob ==
    (last.op = "get_job_status" /\ last.status_code = 200) =>
        LET job == last.job[1]
        IN  /\ job.status \in JobStatus
            /\ job.status \in {PENDING, RUNNING} =>
                    (job.result = NoResult /\ job.duration_s = None)
            /\ job.status = COMPLETED =>
                    (job.result.kind = "track_ids" /\ job.result.error = <<>>
                     /\ job.duration_s # None)
            /\ job.status = FAILED =>
                    (job.result.kind = "error" /\ job.result.error # <<>>
                     /\ job.result.track_ids = <<>> /\ job.duration_s # None)

\* a poller read a job as RUNNING that has meanwhile been COMPLETED with
\* tracks
C5_Witness ==
    /\ last.op = "get_job_status"
    /\ last.status_code = 200
    /\ last.job[1].status = RUNNING
    /\ jobs[last.job_id].status = COMPLETED
    /\ jobs[last.job_id].result.track_ids # <<>>

\* C6: the step that ends a run whose pipeline returned takes the job from
\* RUNNING to COMPLETED and in the same update stores the ids of the returned
\* tracks, in their order, and the duration; and a job becomes RUNNING only
\* from PENDING.
C6_SuccessPath ==
    [][\A j \in DOMAIN jobs :
          /\ (pc[j] = "complete" /\ pc'[j] # "complete") =>
                /\ pc'[j] = "done"
                /\ jobs[j].status = RUNNING
                /\ jobs[j].duration_s = None
                /\ jobs'[j].status = COMPLETED
                /\ jobs'[j].result = TrackIdsResult(run[j].recommended)
                /\ jobs'[j].duration_s # None
          /\ (jobs'[j].status = RUNNING /\ jobs[j].status # RUNNING) =>
                jobs[j].status = PENDING
          /\ (jobs'[j].status = COMPLETED /\ jobs[j].status # COMPLETED) =>
                (jobs[j].status = RUNNING /\ pc[j] = "complete")]_vars

\* a run has ended COMPLETED with two track ids that are not in id order
C6_Witness ==
    \E j \in DOMAIN jobs :
        /\ pc[j] = "done"
        /\ jobs[j].status = COMPLETED
        /\ Len(jobs[j].result.track_ids) >= 2
        /\ jobs[j].result.track_ids[1] > jobs[j].result.track_ids[2]
        /\ jobs[j].result.track_ids = run[j].recommended

\* C7: the step that creates a job adds one PENDING row with the request's
\* type, parameters and owner and no result, and does nothing else: no
\* provider call, no catalog row, no step of a run.
C7_CreateOnlyPersists ==
    [][Len(jobs') # Len(jobs) =>
          LET j == Len(jobs')
          IN  /\ Len(jobs') = Len(jobs) + 1
              /\ SubSeq(jobs', 1, Len(jobs)) = jobs
              /\ jobs'[j].status = PENDING
              /\ jobs'[j].result = NoResult
              /\ jobs'[j].duration_s = None
              /\ [job_type |-> jobs'[j].job_type,
                  parameters |-> jobs'[j].parameters,
                  user_id |-> jobs'[j].user_id] \in Requests
              /\ pc'[j] = "created"
              /\ calls'[j] = <<>>
              /\ UNCHANGED <<releases, artists, tracks, calls, run, runs>>]_vars

\* a job with an owner has been created and nothing has run for it
C7_Witness ==
    \E j \in DOMAIN jobs :
        /\ pc[j] = "created"
        /\ jobs[j].status = PENDING
        /\ jobs[j].user_id = Some(7)
        /\ calls[j] = <<>>

\* C8: no run ever ends by raising to whatever invoked it, also when an
\* update of the job table fails.
C8_RunNeverRaises ==
    \A j \in JobIds : pc[j] # "raised"

\* an exception was raised inside the pipeline of the run of job j, outside
\* the stages that skip failures (a style search page, a candidate's details)
RaisedInPipeline(j) == run[j].not_found \/ run[j].error # <<>>

\* C9: a run in whose pipeline an exception was raised ends with the job
\* FAILED, an error description as result and the duration recorded, never
\* COMPLETED.
C9_PipelineExceptionFails ==
    \A j \in DOMAIN jobs :
        (pc[j] = "done" /\ RaisedInPipeline(j)) =>
            /\ jobs[j].status = FAILED
            /\ jobs[j].result.kind = "error"
            /\ jobs[j].result.error # <<>>
            /\ jobs[j].duration_s # None

RankOf(top, release_id) == CHOOSE i \in DOMAIN top : top[i].id = release_id

\* C11: in the track list the pipeline returns (and the id list a completed
\* job stores) a track of a release ranked higher comes before every track
\* of a release ranked lower.
C11_TracksGroupedByRank ==
    \A j \in JobIds :
        (pc[j] \in {"complete", "done"} /\ run[j].error = <<>>) =>
            LET rec == run[j].recommended
                top == run[j].top
            IN  \A i, k \in DOMAIN rec :
                    RankOf(top, tracks[rec[i]].release_id)
                        < RankOf(top, tracks[rec[k]].release_id) => i < k

\* how often x occurs in s
Count(s, x) == Cardinality({i \in DOMAIN s : s[i] = x})

\* C12: a run that skipped a candidate because its details could not be
\* fetched or stored goes on: it leaves the pipeline with an exception only
\* when a catalog query fails, so it ends COMPLETED otherwise, and it asks the
\* provider for the details of a skipped candidate at most once.
C12_CandidateFailureSkipped ==
    \A j \in JobIds :
        run[j].skipped # <<>> =>
            /\ run[j].error \in {<<>>, <<"catalog error">>}
            /\ (pc[j] = "done" /\ run[j].error = <<>>) => jobs[j].status = COMPLETED
            /\ \A id \in Range(run[j].skipped) : Count(run[j].fetched, id) <= 1

\* C13: a run whose base release has no style tags issues no style search
\* and fetches no candidate's details (its only provider calls are the seed
\* search and the fetch of the base release), and every candidate it ranks
\* is a release the local scan scored above the threshold.
C13_NoStylesLocalOnly ==
    \A j \in JobIds :
        (run[j].base # 0 /\ releases[run[j].base].styles = <<>>) =>
            /\ Count(calls[j], "search") = 1
            /\ Count(calls[j], "sleep") = 0
            /\ Range(run[j].fetched) \subseteq {run[j].base_discogs_id}
            /\ run[j].raw = <<>>
            /\ \A i \in DOMAIN run[j].all_candidates_map :
                    LET c == run[j].all_candidates_map[i]
                    IN  /\ c.id # run[j].base
                        /\ c.score = calculate_release_similarity(
                                         releases[run[j].base], releases[c.id])
                        /\ c.score > MIN_SCORE_FOR_CANDIDACY

\* a finished run with a base release without styles that ranked releases
C13_Witness ==
    \E j \in JobIds :
        /\ pc[j] = "done"
        /\ jobs[j].status = COMPLETED
        /\ run[j].base # 0
        /\ releases[run[j].base].styles = <<>>
        /\ Len(run[j].top) >= 2
        /\ jobs[j].result.track_ids # <<>>

C15_DelayBetweenProviderCalls ==
    \A j \in JobIds :
        \A i \in 1..(Len(calls[j]) - 1) :
            calls[j][i] = "sleep" \/ calls[j][i + 1] = "sleep"

\* C16: a job whose status is RUNNING, COMPLETED or FAILED has its start
\* timestamp set.
C16_StartTimeRecorded ==
    \A j \in DOMAIN jobs :
        jobs[j].status \in {RUNNING, COMPLETED, FAILED} => jobs[j].started_at # None

\* the status changes the update operation is to accept
AllowedTransitions ==
    {<<PENDING, RUNNING>>, <<RUNNING, COMPLETED>>, <<RUNNING, FAILED>>}

\* C17: no step changes the status of a job in another way than
\* PENDING -> RUNNING, RUNNING -> COMPLETED or RUNNING -> FAILED: an update
\* that asks for another change leaves the job record as it is.
C17_OnlyAllowedTransitions ==
    [][\A j \in DOMAIN jobs :
            jobs'[j].status # jobs[j].status =>
                <<jobs[j].status, jobs'[j].status>> \in AllowedTransitions]_vars

\* C18: the catalog never holds two releases with one external id, and an
\* execution whose insert lost the race for an external id has raised and
\* has added no release, artist or track row.
C18_ExternalIdUnique ==
    /\ \A a, b \in DOMAIN releases :
            a # b => releases[a].discogs_id # releases[b].discogs_id
    /\ \A w \in Runners :
            hyd[w].lost => (hyd[w].phase = "raised" /\ hyd[w].added = <<0, 0, 0>>)
    /\ \A t \in DOMAIN tracks : tracks[t].release_id \in DOMAIN releases

\* two executions found the same external id absent; one inserted the
\* release with its tracks, the insert of the other one was refused
C18_Witness ==
    \E w, v \in Runners :
        /\ hyd[w].lost
        /\ hyd[v].phase = "returned"
        /\ hyd[v].discogs_id = hyd[w].discogs_id
        /\ hyd[v].added[1] = 1
        /\ hyd[v].added[3] >= 1
        /\ hyd[w].data.tracklist # <<>>

\* the two releases have nothing in common: no shared style (in lower case),
\* different labels (in lower case), years ten or more apart or unknown,
\* different primary artists
Unrelated(a, b) ==
    /\ StylesSet(a) \cap StylesSet(b) = {}
    /\ Lower(a.label) # Lower(b.label)
    /\ (a.year = 0 \/ b.year = 0 \/ Abs(a.year - b.year) >= 10)
    /\ a.artist_id # b.artist_id

\* C19: the similarity of two releases that have nothing in common is 0,
\* and no similarity is negative.
C19_UnrelatedScoreZero ==
    sim.computed =>
        /\ sim.score >= 0
        /\ Unrelated(sim.base, sim.target) => sim.score = 0

\* two unrelated releases with every field present, more than ten years apart
C19_Witness ==
    /\ sim.computed
    /\ Unrelated(sim.base, sim.target)
    /\ sim.base.styles # <<>> /\ sim.target.styles # <<>>
    /\ sim.base.label # "" /\ sim.target.label # ""
    /\ sim.base.year # 0 /\ sim.target.year # 0
    /\ Abs(sim.base.year - sim.target.year) > 10
    /\ sim.base.artist_id # 0 /\ sim.target.artist_id # 0

\* C20: the style term with base A and target B equals the style term with
\* base B and target A.
C20_StyleTermSymmetric ==
    sim.computed => sim.style = sim.style_swapped

\* the scenario of the scorer: both style sets are {house, techno}, the
\* labels are the same, the years are the same, the primary artists differ
SameButArtist(a, b) ==
    /\ StylesSet(a) = {"house", "techno"}
    /\ StylesSet(b) = {"house", "techno"}
    /\ a.label # "" /\ Lower(a.label) = Lower(b.label)
    /\ a.year # 0 /\ a.year = b.year
    /\ a.artist_id # b.artist_id

\* C21: for a base and a target with the style set {house, techno}, the same
\* label and year and different primary artists the score is style weight +
\* completeness bonus + label weight + year weight, which is 11.0, with
\* nothing for the artist.
C21_ScenarioScore ==
    (sim.computed /\ SameButArtist(sim.base, sim.target)) =>
        /\ sim.score = WEIGHT_STYLE + STYLE_COMPLETENESS_BONUS + WEIGHT_LABEL + WEIGHT_YEAR
        /\ sim.score = 11 * Scale
        /\ ArtistTerm(sim.base, sim.target) = 0

\* the scenario was scored for two releases that both name an artist and
\* whose style lists and labels are written differently
C21_Witness ==
    /\ sim.computed
    /\ SameButArtist(sim.base, sim.target)
    /\ sim.base.styles # sim.target.styles
    /\ sim.base.label # sim.target.label
    /\ sim.base.artist_id # 0 /\ sim.target.artist_id # 0
    /\ sim.score = 11 * Scale

\* C22: a release scored in the candidate loop is kept if and only if its
\* score reaches the candidacy threshold, and the threshold the local scan
\* is called with is lower than the candidacy threshold, so a release
\* scoring between the two is admitted by the local scan.
C22_ExternalThresholdHigher ==
    \A j \in JobIds :
        /\ \A i \in DOMAIN run[j].scored :
                LET c == run[j].scored[i]
                IN  (c \in Range(run[j].all_candidates_map))
                        <=> (c.score >= MIN_SCORE_FOR_CANDIDACY)
        /\ run[j].min_score_threshold # None =>
                /\ run[j].min_score_threshold[1] < MIN_SCORE_FOR_CANDIDACY
                /\ \A r \in DOMAIN releases :
                        LET score == calculate_release_similarity(
                                         releases[run[j].base], releases[r])
                        IN  (r # run[j].base /\ score > run[j].min_score_threshold[1])
                                => r \in CandidateIds(run[j].all_candidates_map)

\* C23: an entry of the candidate map is never replaced or rescored (every
\* step leaves the entries it finds where they are and only adds behind
\* them), the map holds no release id twice, and the ranked list holds
\* entries of the map only: of several observations of one release id the
\* pair inserted first is the one in the output.
C23_FirstInsertWins ==
    [][\A j \in JobIds :
          LET old == run[j].all_candidates_map
              new == run'[j].all_candidates_map
          IN  /\ Len(new) >= Len(old)
              /\ SubSeq(new, 1, Len(old)) = old
              /\ \A i, k \in DOMAIN new : i # k => new[i].id # new[k].id
              /\ Range(run'[j].top) \subseteq Range(new)]_vars

\* the style search listed one release twice; it was scored once and kept,
\* the local scan scored it above its threshold too, and the ranked list of
\* the completed run holds the pair of the first observation
C23_Witness ==
    \E j \in JobIds :
        /\ pc[j] = "done"
        /\ jobs[j].status = COMPLETED
        /\ Len(run[j].raw) = 2
        /\ run[j].raw[1] = run[j].raw[2]
        /\ run[j].raw[1] # run[j].base_discogs_id
        /\ Len(run[j].scored) = 1
        /\ run[j].min_score_threshold # None
        /\ run[j].scored[1].score > run[j].min_score_threshold[1]
        /\ run[j].scored[1] \in Range(run[j].top)
        /\ Len(run[j].top) >= 2

(************************ properties: the resolver *************************)
\* C24: the resolver issues one search; when the page has results it returns
\* the external id of the first one, whatever the others are; when the
\* search has no results (an empty list or a 404 of the provider) it raises
\* NotFound with the track title in it and returns no id.
C24_FirstResultOrNotFound ==
    res.called =>
        /\ Len(res.queries) = 1
        /\ (res.answer.status = "ok" /\ res.answer.results # <<>>
             /\ res.answer.results[1] # 0) =>
                (res.raised = "" /\ res.id = res.answer.results[1])
        /\ (res.answer.status = "404"
             \/ (res.answer.status = "ok" /\ res.answer.results = <<>>)) =>
                /\ res.raised = "NotFoundException"
                /\ res.id = 0
                /\ res.track_title \in Range(res.detail)

\* the resolver returned the first id of a page whose second result has
\* another id
C24_Witness ==
    /\ res.called
    /\ Len(res.answer.results) >= 2
    /\ res.answer.results[1] # 0
    /\ res.answer.results[2] \notin {0, res.answer.results[1]}
    /\ res.id = res.answer.results[1]
    /\ res.raised = ""

(********************** properties: the style search ***********************)
\* C25: when a page of the style search is answered with an error status,
\* the step keeps the results of the earlier pages and goes on to the
\* candidates or the local scan; no further search is issued (the searches
\* of the run are the seed search and the pages up to the failed one); the
\* error does not leave the pipeline, and the run ends COMPLETED unless a
\* catalog query fails.
C25_SearchErrorStopsPaging ==
    [][\A j \in JobIds :
          run'[j].page_failed =>
              /\ ~run[j].page_failed =>
                    /\ run'[j].raw = run[j].raw
                    /\ pc'[j] \in {"candidates", "local_scan"}
              /\ pc'[j] # "style_search"
              /\ Count(calls'[j], "search") = 1 + run'[j].page_num
              /\ run'[j].error \in {<<>>, <<"catalog error">>}
              /\ (pc'[j] = "done" /\ run'[j].error = <<>>) =>
                    jobs'[j].status = COMPLETED]_vars

\* the style search of a run failed, and the run went on to rank releases of
\* the catalog and ended COMPLETED with their tracks
C25_Witness ==
    \E j \in JobIds :
        /\ run[j].page_failed
        /\ pc[j] = "done"
        /\ jobs[j].status = COMPLETED
        /\ run[j].top # <<>>
        /\ jobs[j].result.track_ids # <<>>

\* the first place of an external id in the results of the style search
FirstIn(raw, discogs_id) ==
    CHOOSE i \in DOMAIN raw : raw[i] = discogs_id /\ \A k \in 1..(i - 1) : raw[k] # discogs_id

\* C26: of two candidates with the same score the one inserted into the
\* candidate map first is ranked first, and it is in the ranked list whenever
\* the other one is, so the cut to the limit keeps the order too; the map
\* holds the external candidates in the order of the search results and
\* behind them the local ones.
C26_TiesKeepInsertionOrder ==
    \A j \in JobIds :
        LET map == run[j].all_candidates_map
            top == run[j].top
            external == Range(run[j].scored)
        IN  /\ \A i, k \in DOMAIN map :
                    (i < k /\ map[i].score = map[k].score /\ map[k] \in Range(top)) =>
                        /\ map[i] \in Range(top)
                        /\ RankOf(top, map[i].id) < RankOf(top, map[k].id)
            /\ \A i, k \in DOMAIN map :
                    (map[i] \in external /\ map[k] \notin external) => i < k
            /\ \A i, k \in DOMAIN map :
                    (i < k /\ map[i] \in external /\ map[k] \in external) =>
                        FirstIn(run[j].raw, releases[map[i].id].discogs_id)
                            < FirstIn(run[j].raw, releases[map[k].id].discogs_id)

\* an external candidate and local candidates have the same score; the local
\* ones were inserted downwards by id; the cut to the limit runs through
\* them: the external one and a local one are ranked, another local one
\* with that score is not
C26_Witness ==
    \E j \in JobIds :
        LET map == run[j].all_candidates_map
            top == run[j].top
        IN  /\ Len(top) = DEFAULT_LIMIT_RELEASES_FOR_TRACK_COLLECTION
            /\ \E i, k, m \in DOMAIN map :
                    /\ i < k /\ k < m
                    /\ map[i].score = map[k].score /\ map[k].score = map[m].score
                    /\ map[i] \in Range(run[j].scored)
                    /\ map[k] \notin Range(run[j].scored)
                    /\ map[k].id > map[m].id
                    /\ map[k] \in Range(top)
                    /\ map[m] \notin Range(top)

\* C27: the base release of a run is not among the releases its candidate
\* loop scored, not in its candidate map and not in its ranked list, and a
\* scan of the catalog, in whatever order the rows come and whatever the
\* threshold, does not score it.
C27_BaseNeverCandidate ==
    \A j \in JobIds :
        run[j].base # 0 =>
            /\ run[j].base \notin CandidateIds(run[j].scored)
            /\ run[j].base \notin CandidateIds(run[j].all_candidates_map)
            /\ run[j].base \notin CandidateIds(run[j].top)
            /\ \A all_db_releases \in ScanOrders(DOMAIN releases) :
                    run[j].base \notin
                        CandidateIds(ScanReleases(all_db_releases, run[j].base, releases, -1))

\* the style search listed the base release, which has styles, a label and
\* a year; the run ranked other releases and ended COMPLETED
C27_Witness ==
    \E j \in JobIds :
        /\ pc[j] = "done"
        /\ jobs[j].status = COMPLETED
        /\ run[j].base # 0
        /\ run[j].base_discogs_id \in Range(run[j].raw)
        /\ calculate_release_similarity(releases[run[j].base], releases[run[j].base])
                > MIN_SCORE_FOR_CANDIDACY
        /\ run[j].min_score_threshold # None
        /\ run[j].top # <<>>

(************************ properties: failed jobs **************************)
\* C28: for a FAILED job get_result returns no track list: it answers "not
\* complete" (422) with the same message as for a PENDING or RUNNING job,
\* the status in it apart, and the answer holds nothing of the stored error
\* description.
C28_FailedIsNotComplete ==
    \A job_id \in DOMAIN jobs :
        jobs[job_id].status = FAILED =>
            LET r == get_job_result_as_tracklist(job_id)
            IN  /\ r.status_code = 422
                /\ r.recommendations = <<>>
                /\ r.job = None
                /\ r.detail = <<"Job is not complete. Current status: ", FAILED, ".">>
                /\ Range(r.detail) \cap Range(jobs[job_id].result.error) = {}

\* a poller asked for the result of a job that had FAILED with an error
\* description and was told that the job is not complete
C28_Witness ==
    /\ last.op = "get_job_result"
    /\ last.status_code = 422
    /\ last.job_id \in DOMAIN jobs
    /\ jobs[last.job_id].status = FAILED
    /\ jobs[last.job_id].result.kind = "error"
    /\ jobs[last.job_id].result.error # <<>>
    /\ FAILED \in Range(last.detail)
    /\ last.recommendations = <<>>

(*********************** properties: get-or-create ************************)
\* C29: a get-or-create that fails -- at the fetch of the details, at the
\* primary artist, at the insert of the release, at its tracks or at the
\* commit -- raises, and the step in which it fails leaves the releases, the
\* artists and the tracks of the catalog as they were.
C29_HydrationAllOrNothing ==
    [][\A w \in Runners :
          /\ hyd'[w].failed # "none" => hyd'[w].phase = "raised"
          /\ (hyd'[w].phase = "raised" /\ hyd[w].phase # "raised") =>
                /\ hyd'[w].id = 0
                /\ UNCHANGED <<releases, artists, tracks>>]_vars

\* a get-or-create of a release with an artist and tracks failed at the
\* commit, after all its rows had been flushed, and the catalog is empty
C29_Witness ==
    \E w \in Runners :
        /\ hyd[w].phase = "raised"
        /\ hyd[w].failed = "commit"
        /\ hyd[w].data.artists # <<>>
        /\ \E i \in DOMAIN hyd[w].data.tracklist : hyd[w].data.tracklist[i].type_ = "track"
        /\ releases = <<>> /\ artists = <<>> /\ tracks = <<>>

\* C30: a get-or-create that begins when the catalog holds a release with
\* the external id returns at once (no fetch from the provider) that release,
\* the one every earlier call for the id returned, and adds no release,
\* artist or track; and no step changes the external id of a release.
C30_GetOrCreateIdempotent ==
    [][/\ \A w \in Runners :
            (hyd[w].phase = "idle" /\ hyd'[w].phase # "idle"
             /\ \E r \in DOMAIN releases : releases[r].discogs_id = hyd'[w].discogs_id) =>
                /\ hyd'[w].phase = "returned"
                /\ hyd'[w].id \in DOMAIN releases
                /\ releases[hyd'[w].id].discogs_id = hyd'[w].discogs_id
                /\ \A v \in Runners :
                        (hyd[v].phase = "returned"
                         /\ hyd[v].discogs_id = hyd'[w].discogs_id) =>
                            hyd'[w].id = hyd[v].id
                /\ hyd'[w].added = <<0, 0, 0>>
                /\ UNCHANGED <<releases, artists, tracks>>
       /\ \A r \in DOMAIN releases :
            /\ r \in DOMAIN releases'
            /\ releases'[r].discogs_id = releases[r].discogs_id]_vars

\* one execution created a release with tracks; a later one for the same
\* external id returned the same release without a fetch; the catalog holds
\* that one release
C30_Witness ==
    \E v, w \in Runners :
        /\ v # w
        /\ hyd[v].phase = "returned" /\ hyd[w].phase = "returned"
        /\ hyd[v].discogs_id = hyd[w].discogs_id
        /\ hyd[v].id = hyd[w].id
        /\ hyd[v].added[1] = 1 /\ hyd[v].added[3] >= 1
        /\ hyd[w].added = <<0, 0, 0>>
        /\ hyd[w].data = DataBare /\ hyd[v].data # DataBare
        /\ Len(releases) = 1

====
